---- MODULE Spec2Model ----
(***************************************************************************)
(* A model of github.com/dnl-fm/zeit-go: the Zeit value (a UTC instant     *)
(* with a display zone), its arithmetic, its persistence and JSON hooks,   *)
(* and the billing-cycle generator with its Period entity.                 *)
(*                                                                         *)
(* An instant is [sec, nsec]: Unix seconds and the nanoseconds within the  *)
(* second (0 .. 999999999), as time.Time keeps them. Zeit objects live in  *)
(* a heap of records addressed by their index, because the code hands out  *)
(* *Zeit pointers and Scan / UnmarshalJSON write through them.            *)
(***************************************************************************)
EXTENDS Integers, Sequences, FiniteSets, TLC

\* ------------------------------------------------------------------------
\* Bounds of the model
\* ------------------------------------------------------------------------

\* Largest count passed to Cycles.
MaxCount == 3

\* Largest |n| passed to AddBusinessDays.
MaxBusiness == 6

\* Number of consecutive days, after the first, that the instants handed to
\* Until are taken from.
MaxSpan == 13

\* ------------------------------------------------------------------------
\* The time package, as far as the code uses it
\* ------------------------------------------------------------------------

SecondsPerDay == 24 * 60 * 60

NanosPerSecond == 1000 * 1000 * 1000

\* time.Weekday: Sunday = 0 ... Saturday = 6.
Sunday == 0

Saturday == 6

\* Days since 1970-01-01 of the civil date y-m-d, m in 1..12; d may lie
\* outside the month (time.Date adds day-1 to the first of the month).
DaysFromCivil(y, m, d) ==
  LET yy  == IF m <= 2 THEN y - 1 ELSE y
      era == yy \div 400
      yoe == yy - era * 400
      mp  == IF m > 2 THEN m - 3 ELSE m + 9
      doy == (153 * mp + 2) \div 5 + d - 1
      doe == yoe * 365 + yoe \div 4 - yoe \div 100 + doy
  IN era * 146097 + doe - 719468

\* The civil date [y, m, d] of a day count since 1970-01-01.
CivilFromDays(n) ==
  LET z   == n + 719468
      era == z \div 146097
      doe == z - era * 146097
      yoe == (doe - doe \div 1460 + doe \div 36524 - doe \div 146096) \div 365
      doy == doe - (365 * yoe + yoe \div 4 - yoe \div 100)
      mp  == (5 * doy + 2) \div 153
      d   == doy - (153 * mp + 2) \div 5 + 1
      m   == IF mp < 10 THEN mp + 3 ELSE mp - 9
  IN [y |-> yoe + era * 400 + (IF m <= 2 THEN 1 ELSE 0), m |-> m, d |-> d]

IsLeap(y) == (y % 4 = 0) /\ ((y % 100 # 0) \/ (y % 400 = 0))

\* Number of days of month m (1..12) of year y.
DaysIn(y, m) ==
  IF m = 2 THEN (IF IsLeap(y) THEN 29 ELSE 28)
  ELSE IF m \in {4, 6, 9, 11} THEN 30 ELSE 31

\* time.Date(year, month, day, h, m, s, nsec, time.UTC) with the clock given
\* as the second of the day: the month is normalised into the year, the day
\* is added as a day count, so an overflowing day rolls into the next month.
GoDate(year, month, day, sod, nsec) ==
  LET m0 == month - 1
      y  == year + (m0 \div 12)
      m  == (m0 % 12) + 1
  IN [sec |-> DaysFromCivil(y, m, day) * SecondsPerDay + sod, nsec |-> nsec]

\* Civil fields of an instant read at a UTC offset of off seconds.
CivilAt(t, off) == CivilFromDays((t.sec + off) \div SecondsPerDay)

SecondOfDayAt(t, off) == (t.sec + off) % SecondsPerDay

\* t.AddDate(years, months, days) on a UTC time.Time.
AddDate(t, years, months, days) ==
  LET c == CivilAt(t, 0)
  IN GoDate(c.y + years, c.m + months, c.d + days, SecondOfDayAt(t, 0), t.nsec)

\* The UTC day count of an instant.
DayOf(t) == t.sec \div SecondsPerDay

\* t.Weekday() on a UTC time.Time (1970-01-01 was a Thursday).
Weekday(t) == ((t.sec \div SecondsPerDay) + 4) % 7

\* Weekday of the calendar date of t read at a UTC offset.
WeekdayAt(t, off) == (((t.sec + off) \div SecondsPerDay) + 4) % 7

\* ------------------------------------------------------------------------
\* Display zones (*time.Location). "nil" is the nil pointer a caller may pass.
\* ------------------------------------------------------------------------

Zones == {"UTC", "Europe/Berlin", "Africa/Monrovia", "America/Asuncion"}

LocArgs == Zones \cup {"nil"}

\* Day count of the last Sunday of month m of year y.
LastSunday(y, m) ==
  LET last == DaysFromCivil(y, m, DaysIn(y, m))
  IN last - ((last + 4) % 7)

\* Day count of the first Sunday on or after y-m-d.
FirstSundayFrom(y, m, d) ==
  LET n == DaysFromCivil(y, m, d)
  IN n + ((7 - ((n + 4) % 7)) % 7)

\* Offset from UTC, in seconds, that the zone has at instant t (the zone
\* database read by t.In(loc)). Europe/Berlin: CET, with CEST between the
\* last Sundays of March and October at 01:00 UTC from 1996 on (the instants
\* of the model lie in 1969-1979 and 2013-2037). Africa/Monrovia: local mean
\* time -0:44:30 until 1972-01-07, UTC afterwards. America/Asuncion: -04:00,
\* with -03:00 from the first Sunday of October, 00:00 local (04:00 UTC), to
\* the fourth Sunday of March, 00:00 local (03:00 UTC), in the years from
\* 2013 on (the instants read in this zone lie in 1969-1971 and between 2013
\* and September 2024).
ZoneOffset(loc, t) ==
  CASE loc = "Europe/Berlin" ->
         LET y == CivilAt(t, 0).y
         IN IF /\ y >= 1996
               /\ t.sec >= LastSunday(y, 3) * SecondsPerDay + 3600
               /\ t.sec <  LastSunday(y, 10) * SecondsPerDay + 3600
            THEN 2 * 3600 ELSE 3600
    [] loc = "Africa/Monrovia" ->
         IF t.sec < DaysFromCivil(1972, 1, 7) * SecondsPerDay + 2670
         THEN 0 - 2670 ELSE 0
    [] loc = "America/Asuncion" ->
         LET y == CivilAt(t, 0).y
         IN IF /\ y >= 2013
               /\ \/ t.sec >= FirstSundayFrom(y, 10, 1) * SecondsPerDay + 4 * 3600
                  \/ t.sec <  FirstSundayFrom(y, 3, 22) * SecondsPerDay + 3 * 3600
            THEN 0 - 3 * 3600 ELSE 0 - 4 * 3600
    [] OTHER -> 0

\* The second half of time.Date(..., loc): unix is the instant the fields
\* give when read as UTC. The zone's offset at unix is looked up, and when
\* unix minus that offset falls outside the zone period found (here: the
\* zone has another offset there) the offset at that instant is taken
\* instead. An offset of zero leaves unix as it is.
DateZoned(unix, loc) ==
  LET offset == ZoneOffset(loc, unix)
      utc    == [unix EXCEPT !.sec = unix.sec - offset]
      other  == ZoneOffset(loc, utc)
  IN IF offset # 0
     THEN [unix EXCEPT !.sec = unix.sec - (IF other # offset THEN other ELSE offset)]
     ELSE unix

\* time.Date(year, month, day, h, m, s, nsec, loc), the clock given as the
\* second of the day: the fields are read as UTC once, then adjusted.
DateIn(year, month, day, sod, nsec, loc) ==
  CHOOSE t \in { DateZoned(unix, loc) :
                   unix \in {GoDate(year, month, day, sod, nsec)} } : TRUE

\* ------------------------------------------------------------------------
\* Zeit: values
\* ------------------------------------------------------------------------

\* if loc == nil { loc = time.UTC }
DefaultLoc(loc) == IF loc = "nil" THEN "UTC" ELSE loc

\* The Zeit value New builds: the instant normalised to UTC (the absolute
\* instant is unchanged by t.UTC()), the zone defaulted.
NewZeit(t, loc) == [instant |-> t, location |-> DefaultLoc(loc)]

\* The timestamp taken for milliseconds, as time.UnixMilli would.
TimeUnixMilli(timestamp) ==
  [sec |-> timestamp \div 1000, nsec |-> (timestamp % 1000) * 1000 * 1000]

\* time.Unix(timestamp, 0)
TimeUnix(timestamp) == [sec |-> timestamp, nsec |-> 0]

\* t.Unix(): whole seconds, the fraction dropped.
Unix(z) == z.instant.sec

\* A time.Duration is modelled as [s, ns] with 0 <= ns < 10^9 standing for
\* s seconds plus ns nanoseconds (s may be negative).
DurationOf(s, ns) == [s |-> s, ns |-> ns]

\* t.Add(d)
TimeAdd(t, d) ==
  LET n == t.nsec + d.ns
  IN [sec |-> t.sec + d.s + (n \div NanosPerSecond), nsec |-> n % NanosPerSecond]

\* t.Sub(u): the instants of the model are less than 2^63 ns apart, so the
\* difference is exact.
TimeSub(t, u) ==
  LET n == t.nsec - u.nsec
  IN IF n < 0 THEN DurationOf(t.sec - u.sec - 1, n + NanosPerSecond)
     ELSE DurationOf(t.sec - u.sec, n)

\* -d
DurationNeg(d) ==
  IF d.ns = 0 THEN DurationOf(0 - d.s, 0)
  ELSE DurationOf(0 - d.s - 1, NanosPerSecond - d.ns)

RECURSIVE Log2(_)
Log2(n) == IF n < 2 THEN 0 ELSE 1 + Log2(n \div 2)

RECURSIVE Pow2(_)
Pow2(k) == IF k = 0 THEN 1 ELSE 2 * Pow2(k - 1)

\* int(float64(whole) + float64(rest) / unit) for a duration d >= 0, where
\* whole == d / unit, rest == d % unit and unit is unitSecs seconds, that is
\* odd * 2^(53 - shift) ns. The sum is rounded to the nearest float64,
\* whose 53-bit mantissa leaves steps of 2^(Log2(whole) - 52) near whole: it
\* is whole + 1 when unit - rest is less than half a step, and the conversion
\* to int then yields whole + 1. In every other case the fraction is cut off.
\* A rest more than a second short of the unit never rounds up.
FloatInt(d, unitSecs, odd, shift) ==
  LET whole == d.s \div unitSecs
      gap   == IF d.s % unitSecs = unitSecs - 1 THEN NanosPerSecond - d.ns
               ELSE NanosPerSecond
      k     == shift - Log2(whole)
  IN IF whole >= 1 /\ k <= 30 /\ gap <= (odd - 1) \div Pow2(k)
     THEN whole + 1 ELSE whole

\* int(d.Hours()): float64(d / Hour) + float64(d % Hour) / (60 * 60 * 1e9).
\* Dividing the float by 24 and cutting the fraction off gives the quotient
\* of this integer by 24.
DurationHours(d) == FloatInt(d, 3600, 439453125, 40)

\* t.Before(u), t.After(u), t.Equal(u) on absolute instants.
TimeBefore(t, u) == (t.sec < u.sec) \/ (t.sec = u.sec /\ t.nsec < u.nsec)

TimeAfter(t, u) == TimeBefore(u, t)

TimeEqual(t, u) == (t.sec = u.sec) /\ (t.nsec = u.nsec)

Before(z, other) == TimeBefore(z.instant, other.instant)

After(z, other) == TimeAfter(z.instant, other.instant)

\* Equal comparing the display zones as well.
EqualWithZone(z, other) ==
  TimeEqual(z.instant, other.instant) /\ z.location = other.location

Equal(z, other) == TimeEqual(z.instant, other.instant)

ToDatabase(z) == Unix(z)

\* IsWeekend with the Saturday test lost.
IsWeekendSundayOnly(weekday) == weekday = Sunday

IsWeekend(weekday) == (weekday = Saturday) \/ (weekday = Sunday)

\* BusinessLoop counting every step, weekend or not.
BusinessLoopNoSkip(current, direction, days, i) ==
  IF i < days THEN AddDate(current, 0, 0, direction * (days - i)) ELSE current

\* The loop of AddBusinessDays: step one day in the direction, count the
\* step when it lands on Monday to Friday.
RECURSIVE BusinessLoop(_, _, _, _)
BusinessLoop(current, direction, days, i) ==
  IF i < days
  THEN LET next == AddDate(current, 0, 0, direction)
       IN BusinessLoop(next, direction, days,
                       IF IsWeekend(Weekday(next)) THEN i ELSE i + 1)
  ELSE current

\* BusinessDaysInstant with the direction lost: a negative count walks
\* forward as well.
BusinessDaysInstantForward(t, days) ==
  BusinessLoop(t, 1, IF days < 0 THEN 0 - days ELSE days, 0)

\* The instant AddBusinessDays arrives at.
BusinessDaysInstant(t, days) ==
  IF days < 0 THEN BusinessLoop(t, 0 - 1, 0 - days, 0)
  ELSE BusinessLoop(t, 1, days, 0)

\* ------------------------------------------------------------------------
\* Zeit: objects. A heap is a sequence of Zeit values; a *Zeit is an index.
\* Every operation below returns the heap after the call and what the call
\* returns.
\* ------------------------------------------------------------------------

\* &Zeit{...}: a fresh object.
Alloc(h, zeit) == [heap |-> Append(h, zeit), ret |-> Len(h) + 1]

New(h, t, loc) == Alloc(h, NewZeit(t, loc))

FromDatabase(h, timestamp, loc) == New(h, TimeUnix(timestamp), DefaultLoc(loc))

Add(h, z, d) == New(h, TimeAdd(h[z].instant, d), h[z].location)

\* AddDays moving the receiver itself and returning it.
AddDaysInPlace(h, z, days) ==
  [heap |-> [h EXCEPT ![z].instant = AddDate(h[z].instant, 0, 0, days)], ret |-> z]

\* AddDays as calendar arithmetic in the display zone: the date moves by
\* days, the wall clock is kept.
AddDaysWallClock(h, z, days) ==
  LET t   == h[z].instant
      loc == h[z].location
      off == ZoneOffset(loc, t)
      c   == CivilAt(t, off)
  IN New(h, DateIn(c.y, c.m, c.d + days, SecondOfDayAt(t, off), t.nsec, loc), loc)

AddDays(h, z, days) == New(h, AddDate(h[z].instant, 0, 0, days), h[z].location)

AddBusinessDays(h, z, days) ==
  New(h, BusinessDaysInstant(h[z].instant, days), h[z].location)

\* In setting the zone on the receiver and returning it.
InMutating(h, z, loc) ==
  [heap |-> [h EXCEPT ![z].location = DefaultLoc(loc)], ret |-> z]

In(h, z, loc) ==
  Alloc(h, [instant |-> h[z].instant, location |-> DefaultLoc(loc)])

\* z.instant.In(z.location): the civil date the Zeit shows.
Shown(zeit) == CivilAt(zeit.instant, ZoneOffset(zeit.location, zeit.instant))

\* DaysInMonth: day zero of the next month, at midnight in the zone, and the
\* day of the month that instant shows in the zone.
DaysInMonth(zeit) ==
  CHOOSE n \in
    { Shown(NewZeit(r, zeit.location)).d :
        r \in { DateIn(t.y, t.m + 1, 0, 0, 0, zeit.location) :
                  t \in {Shown(zeit)} } } : TRUE

StartOfMonth(h, z) ==
  CHOOSE r \in
    { New(h, DateIn(t.y, t.m, 1, 0, 0, h[z].location), h[z].location) :
        t \in {Shown(h[z])} } : TRUE

EndOfMonth(h, z) ==
  CHOOSE r \in
    { New(h, DateIn(t.y, t.m, lastDay, 23 * 3600 + 59 * 60 + 59, 0,
                    h[z].location), h[z].location) :
        t \in {Shown(h[z])}, lastDay \in {DaysInMonth(h[z])} } : TRUE

\* ------------------------------------------------------------------------
\* Billing cycles
\* ------------------------------------------------------------------------

Daily == 0

Weekly == 1

Monthly == 2

Quarterly == 3

Yearly == 4

\* CycleStep with every period end built in UTC.
CycleStepInUTC(h, current, interval) ==
  CASE interval = Weekly    -> New(h, AddDate(h[current].instant, 0, 0, 7), "UTC")
    [] interval = Monthly   -> New(h, AddDate(h[current].instant, 0, 1, 0), "UTC")
    [] interval = Quarterly -> New(h, AddDate(h[current].instant, 0, 3, 0), "UTC")
    [] interval = Yearly    -> New(h, AddDate(h[current].instant, 1, 0, 0), "UTC")
    [] OTHER                -> New(h, AddDate(h[current].instant, 0, 0, 1), "UTC")

\* The switch of Cycles: the heap with the period's end allocated, and the
\* end's address.
CycleStep(h, current, interval) ==
  CASE interval = Daily     -> AddDays(h, current, 1)
    [] interval = Weekly    -> AddDays(h, current, 7)
    [] interval = Monthly   ->
         New(h, AddDate(h[current].instant, 0, 1, 0), h[current].location)
    [] interval = Quarterly ->
         New(h, AddDate(h[current].instant, 0, 3, 0), h[current].location)
    [] interval = Yearly    ->
         New(h, AddDate(h[current].instant, 1, 0, 0), h[current].location)
    [] OTHER                -> AddDays(h, current, 1)

\* Advance with the assignment lost: every period starts at the anchor.
AdvanceStale(current, next) == current

\* current = next, at the end of the loop body.
Advance(current, next) == next

\* CyclesLoop handing out snapshots: every period starts at a copy of current.
RECURSIVE CyclesLoopCopying(_, _, _, _, _, _)
CyclesLoopCopying(h, current, i, count, interval, periods) ==
  IF i < count
  THEN LET copy == New(h, h[current].instant, h[current].location)
           step == CycleStep(copy.heap, current, interval)
           p    == [StartsAt |-> copy.ret, EndsAt |-> step.ret]
       IN CyclesLoopCopying(step.heap, step.ret, i + 1, count, interval,
                            Append(periods, p))
  ELSE [heap |-> h, ret |-> periods]

\* The loop of Cycles from iteration i on.
RECURSIVE CyclesLoop(_, _, _, _, _, _)
CyclesLoop(h, current, i, count, interval, periods) ==
  IF i < count
  THEN LET step == CycleStep(h, current, interval)
           p    == [StartsAt |-> current, EndsAt |-> step.ret]
       IN CyclesLoop(step.heap, Advance(current, step.ret), i + 1, count,
                     interval, Append(periods, p))
  ELSE [heap |-> h, ret |-> periods]

\* Cycles returning one period where the count asks for none.
CyclesAtLeastOne(h, z, count, interval) ==
  CyclesLoop(h, z, 0, IF count <= 0 THEN 1 ELSE count, interval, << >>)

Cycles(h, z, count, interval) ==
  IF count <= 0 THEN [heap |-> h, ret |-> << >>]
  ELSE CyclesLoop(h, z, 0, count, interval, << >>)

\* Contains with the end included: a closed interval.
ContainsClosed(h, p, z) == ~Before(h[z], h[p.StartsAt]) /\ ~After(h[z], h[p.EndsAt])

\* Contains with the start excluded: an open interval.
ContainsAfterStart(h, p, z) == After(h[z], h[p.StartsAt]) /\ Before(h[z], h[p.EndsAt])

\* p.Contains(z), with the three objects read from heap h.
Contains(h, p, z) == ~Before(h[z], h[p.StartsAt]) /\ Before(h[z], h[p.EndsAt])

\* p.Duration(): EndsAt.instant.Sub(StartsAt.instant), signed.
PeriodDuration(h, p) == TimeSub(h[p.EndsAt].instant, h[p.StartsAt].instant)

\* ------------------------------------------------------------------------
\* Duration: the span between two Zeits, held by address
\* ------------------------------------------------------------------------

\* z.Until(other)
Until(z, other) == [start |-> z, end |-> other]

\* d.ordered(): the two instants, the earlier first.
ordered(h, d) ==
  LET s == h[d.start].instant
      e == h[d.end].instant
  IN IF TimeAfter(s, e) THEN <<e, s>> ELSE <<s, e>>

\* raw keeping the sign of the difference.
rawSigned(h, d) == TimeSub(h[d.end].instant, h[d.start].instant)

\* d.raw(): the absolute difference.
raw(h, d) ==
  LET diff == TimeSub(h[d.end].instant, h[d.start].instant)
  IN IF diff.s < 0 THEN DurationNeg(diff) ELSE diff

Raw(h, d) == raw(h, d)

\* int(d.raw().Seconds()), int(d.raw().Minutes()), int(d.raw().Hours()),
\* int(d.raw().Hours() / 24)
Seconds(h, d) == FloatInt(raw(h, d), 1, 1953125, 44)

Minutes(h, d) == FloatInt(raw(h, d), 60, 29296875, 42)

Hours(h, d) == DurationHours(raw(h, d))

Days(h, d) == DurationHours(raw(h, d)) \div 24

\* Months with the day-of-month test lost.
MonthsNoDayTest(h, d) ==
  LET start == CivilAt(ordered(h, d)[1], 0)
      end   == CivilAt(ordered(h, d)[2], 0)
      total == (end.y - start.y) * 12 + (end.m - start.m)
  IN IF total < 0 THEN 0 ELSE total

\* Months with the day-of-month test inverted: one month is taken off
\* when the end's day lies after the start's.
MonthsDayTestInverted(h, d) ==
  LET start  == CivilAt(ordered(h, d)[1], 0)
      end    == CivilAt(ordered(h, d)[2], 0)
      total  == (end.y - start.y) * 12 + (end.m - start.m)
      total2 == IF end.d > start.d THEN total - 1 ELSE total
  IN IF total2 < 0 THEN 0 ELSE total2

Months(h, d) ==
  LET start  == CivilAt(ordered(h, d)[1], 0)
      end    == CivilAt(ordered(h, d)[2], 0)
      years  == end.y - start.y
      months == end.m - start.m
      total  == years * 12 + months
      total2 == IF end.d < start.d THEN total - 1 ELSE total
  IN IF total2 < 0 THEN 0 ELSE total2

\* BusinessDays counting the end date instead of the start date.
BusinessDaysEndCounted(h, d) ==
  LET startDate == DayOf(ordered(h, d)[1])
      endDate   == DayOf(ordered(h, d)[2])
  IN Cardinality({n \in (startDate + 1)..endDate : ~IsWeekend((n + 4) % 7)})

BusinessDays(h, d) ==
  LET start     == CivilAt(ordered(h, d)[1], 0)
      end       == CivilAt(ordered(h, d)[2], 0)
      startDate == GoDate(start.y, start.m, start.d, 0, 0)
      endDate   == GoDate(end.y, end.m, end.d, 0, 0)
      totalDays == DurationHours(TimeSub(endDate, startDate)) \div 24
      fullWeeks == totalDays \div 7
      remaining == totalDays % 7
      count     == fullWeeks * 5
  IN IF ~TimeBefore(startDate, endDate) THEN 0
     ELSE count + Cardinality(
            {i \in 0..(remaining - 1) :
               ~IsWeekend(Weekday(AddDate(startDate, 0, 0, fullWeeks * 7 + i)))})

\* ------------------------------------------------------------------------
\* Text: a string is a sequence of one-character strings.
\* ------------------------------------------------------------------------

DigitChars == <<"0", "1", "2", "3", "4", "5", "6", "7", "8", "9">>

IsDigit(c) == \E i \in 1..10 : DigitChars[i] = c

DigitVal(c) == (CHOOSE i \in 1..10 : DigitChars[i] = c) - 1

\* appendInt(b, n, width) for 0 <= n < 10^width.
RECURSIVE Pad(_, _)
Pad(n, width) ==
  IF width = 0 THEN << >>
  ELSE Append(Pad(n \div 10, width - 1), DigitChars[(n % 10) + 1])

\* Integer division truncating toward zero, as Go's / on ints.
TruncDiv(a, b) == IF a >= 0 THEN a \div b ELSE 0 - ((0 - a) \div b)

\* The zone suffix of layout "Z07:00": Z at offset zero, else the sign and
\* the offset's hours and minutes (its seconds are not printed).
FormatZone(off) ==
  IF off = 0 THEN <<"Z">>
  ELSE LET zone == TruncDiv(off, 60)
           abs  == IF zone < 0 THEN 0 - zone ELSE zone
       IN <<IF zone < 0 THEN "-" ELSE "+">> \o Pad(abs \div 60, 2) \o <<":">>
          \o Pad(abs % 60, 2)

\* t.In(loc).Format(time.RFC3339)
FormatRFC3339(t, loc) ==
  LET off == ZoneOffset(loc, t)
      c   == CivilAt(t, off)
      sod == SecondOfDayAt(t, off)
  IN Pad(c.y, 4) \o <<"-">> \o Pad(c.m, 2) \o <<"-">> \o Pad(c.d, 2) \o <<"T">>
     \o Pad(sod \div 3600, 2) \o <<":">> \o Pad((sod \div 60) % 60, 2) \o <<":">>
     \o Pad(sod % 60, 2) \o FormatZone(off)

\* ToUser formatting the stored UTC instant without z.instant.In(z.location).
ToUserUTC(z) == FormatRFC3339(z.instant, "UTC")

ToUser(z) == FormatRFC3339(z.instant, z.location)

\* Whether value[i..j] are all digits, and their number.
AllDigits(value, i, j) == \A k \in i..j : IsDigit(value[k])

RECURSIVE Num(_, _, _)
Num(value, i, j) ==
  IF j < i THEN 0 ELSE Num(value, i, j - 1) * 10 + DigitVal(value[j])

\* Index of the last digit of the run of digits that starts at i (i - 1 when
\* value[i] is no digit).
RECURSIVE DigitsEnd(_, _)
DigitsEnd(value, i) ==
  IF i <= Len(value) /\ IsDigit(value[i]) THEN DigitsEnd(value, i + 1) ELSE i - 1

\* The nanoseconds a fraction's digits value[i..j] stand for (nine digits
\* are kept, a shorter run is scaled up).
RECURSIVE FracNanos(_, _, _, _)
FracNanos(value, i, j, scale) ==
  IF i > j \/ scale = 0 THEN 0
  ELSE DigitVal(value[i]) * scale + FracNanos(value, i + 1, j, scale \div 10)

\* ParseZone with the sign of a numeric offset ignored.
ParseZoneNoSign(value, i) ==
  IF Len(value) = i /\ value[i] = "Z" THEN [ok |-> TRUE, off |-> 0]
  ELSE IF Len(value) = i + 5 /\ value[i] \in {"+", "-"}
          /\ AllDigits(value, i + 1, i + 2) /\ value[i + 3] = ":"
          /\ AllDigits(value, i + 4, i + 5)
       THEN [ok |-> TRUE, off |-> Num(value, i + 1, i + 2) * 3600
                                  + Num(value, i + 4, i + 5) * 60]
       ELSE [ok |-> FALSE, off |-> 0]

\* The zone of a parsed value from index i to its end: Z, or a sign followed by
\* hh:mm. ok is false when it is neither.
ParseZone(value, i) ==
  LET n == Len(value)
  IN IF n = i /\ value[i] = "Z" THEN [ok |-> TRUE, off |-> 0]
     ELSE IF /\ n = i + 5
             /\ value[i] \in {"+", "-"}
             /\ AllDigits(value, i + 1, i + 2)
             /\ value[i + 3] = ":"
             /\ AllDigits(value, i + 4, i + 5)
          THEN LET secs == Num(value, i + 1, i + 2) * 3600
                           + Num(value, i + 4, i + 5) * 60
               IN [ok |-> TRUE, off |-> IF value[i] = "-" THEN 0 - secs ELSE secs]
          ELSE [ok |-> FALSE, off |-> 0]

\* time.Parse with the layouts RFC3339 and RFC3339Nano: both accept the
\* same values, a fraction after the seconds being optional under either.
ParseTime(value) ==
  LET bad == [ok |-> FALSE, t |-> TimeUnix(0)]
  IN IF ~ /\ Len(value) >= 20
          /\ AllDigits(value, 1, 4) /\ value[5] = "-"
          /\ AllDigits(value, 6, 7) /\ value[8] = "-"
          /\ AllDigits(value, 9, 10) /\ value[11] = "T"
          /\ AllDigits(value, 12, 13) /\ value[14] = ":"
          /\ AllDigits(value, 15, 16) /\ value[17] = ":"
          /\ AllDigits(value, 18, 19)
     THEN bad
     ELSE LET y    == Num(value, 1, 4)
              m    == Num(value, 6, 7)
              d    == Num(value, 9, 10)
              hh   == Num(value, 12, 13)
              mi   == Num(value, 15, 16)
              ss   == Num(value, 18, 19)
              frac == value[20] \in {".", ","} /\ Len(value) >= 21
                      /\ IsDigit(value[21])
              fend == IF frac THEN DigitsEnd(value, 21) ELSE 19
              nsec == IF frac THEN FracNanos(value, 21, fend, NanosPerSecond \div 10)
                      ELSE 0
              zone == ParseZone(value, fend + 1)
          IN IF ~ /\ m \in 1..12
                  /\ d >= 1
                  /\ hh < 24 /\ mi < 60 /\ ss < 60
                  /\ zone.ok
             THEN bad
             ELSE IF d > DaysIn(y, m) THEN bad
             ELSE LET local == GoDate(y, m, d, hh * 3600 + mi * 60 + ss, nsec)
                  IN [ok |-> TRUE,
                      t  |-> [sec |-> local.sec - zone.off, nsec |-> nsec]]

\* FromUser as a value: err, and the Zeit value New builds when err is false.
FromUser(isoString, loc) ==
  LET first  == ParseTime(isoString)
      second == IF first.ok THEN first ELSE ParseTime(isoString)
  IN IF second.ok
     THEN [err |-> FALSE, zeit |-> NewZeit(second.t, DefaultLoc(loc))]
     ELSE [err |-> TRUE, zeit |-> NewZeit(TimeUnix(0), "UTC")]

\* A JSON document is [kind, chars]: a string with its characters, or a
\* document of another kind (a number, null).
JsonString(chars) == [kind |-> "string", chars |-> chars]

MarshalJSON(z) == JsonString(ToUser(z))

\* The first half of UnmarshalJSON: json.Unmarshal into a string, then
\* FromUser with time.UTC. null leaves the string empty and is no error.
UnmarshalParsed(data) ==
  IF data.kind = "string" THEN FromUser(data.chars, "UTC")
  ELSE IF data.kind = "null" THEN FromUser(<< >>, "UTC")
  ELSE [err |-> TRUE, zeit |-> NewZeit(TimeUnix(0), "UTC")]

\* ------------------------------------------------------------------------
\* Persistence hooks
\* ------------------------------------------------------------------------

\* A driver value is [type, int, frac]: int64 (int), float64 (int + frac/10,
\* frac carrying the sign of the value), nil, or another Go type.
SrcInt64(v) == [type |-> "int64", int |-> v, frac |-> 0]

SrcFloat64(whole, tenths) == [type |-> "float64", int |-> whole, frac |-> tenths]

SrcOther(type) == [type |-> type, int |-> 0, frac |-> 0]

\* ScanAccepts taking nil for a value as well.
ScanAcceptsNil(src) == src.type \in {"int64", "float64", "nil"}

\* The cases of Scan's type switch that return nil.
ScanAccepts(src) == src.type \in {"int64", "float64"}

\* time.Unix(v, 0).UTC() for int64, time.Unix(int64(v), 0).UTC() for float64:
\* the conversion truncates toward zero, which drops frac.
ScanInstant(src) == TimeUnix(src.int)

\* Value(): the driver value written to the store.
Value(z) == SrcInt64(Unix(z))

\* ------------------------------------------------------------------------
\* Inputs
\* ------------------------------------------------------------------------

At(y, m, d, hh, mi, nsec) ==
  [sec |-> DaysFromCivil(y, m, d) * SecondsPerDay + hh * 3600 + mi * 60,
   nsec |-> nsec]

\* The time values New is called with: a month end, a leap day, a Friday
\* late in the UTC day, a Saturday, a Monday with a sub-second fraction, an
\* instant at which Africa/Monrovia is on local mean time, and a day of a
\* month that begins with a change of offset in America/Asuncion.
Anchors ==
  { At(2024, 1, 31, 10, 0, 0), At(2024, 2, 29, 10, 0, 0),
    At(2024, 1, 19, 23, 30, 0), At(2024, 1, 20, 10, 0, 0),
    At(2024, 1, 15, 11, 30, NanosPerSecond \div 2), At(1971, 1, 1, 1, 0, 0),
    At(2017, 10, 15, 12, 0, 0) }

\* The instants handed to Until: consecutive days from Monday 2024-01-15 at
\* varying times of day; two instants 22 hours apart, one of them 14 days
\* before 2024-01-15; the 14th and 15th of the next month; the last day of
\* the year before; and the last nanosecond of the 200th day after
\* 2024-01-01T00:00:00Z.
SpanInstants ==
  { At(2024, 1, 15 + k, (7 * k) % 24, 0, 0) : k \in 0..MaxSpan }
  \cup { At(2024, 1, 1, 0, 0, 0), At(2024, 1, 1, 22, 0, 0),
         At(2024, 2, 14, 0, 0, 0), At(2024, 2, 15, 0, 0, 0),
         At(2023, 12, 31, 23, 0, 0),
         At(2024, 1, 31, 10, 0, 0), At(2024, 2, 29, 10, 0, 0),
         At(2024, 3, 1, 10, 0, 0),
         [sec |-> At(2024, 7, 19, 0, 0, 0).sec - 1, nsec |-> NanosPerSecond - 1] }

SpanZones == {"UTC", "Europe/Berlin", "America/Asuncion"}

DbInputs == {1705318200, 0 - 1}

ScanInputs ==
  { SrcInt64(1705318200), SrcFloat64(0 - 1, 0 - 5), SrcOther("nil"),
    SrcOther("string") }

Durations == {DurationOf(2 * 3600, 0), DurationOf(0 - 2, NanosPerSecond \div 2)}

DayCounts == {0 - 1, 1, 30}

BusinessCounts == (0 - MaxBusiness)..MaxBusiness

Intervals == {Daily, Weekly, Monthly, Quarterly, Yearly, Yearly + 1}

Counts == (0 - 1)..MaxCount

\* JSON documents handed to UnmarshalJSON beside marshalled ones: a value
\* with a numeric offset, one with a fraction, a day that does not exist, a
\* text that is no timestamp, a number, null.
Chars20240115 == <<"2", "0", "2", "4", "-", "0", "1", "-", "1", "5">>

JsonInputs ==
  { JsonString(Chars20240115 \o <<"T", "1", "0", ":", "3", "0", ":", "0", "0",
                                  "-", "0", "5", ":", "0", "0">>),
    JsonString(Chars20240115 \o <<"T", "1", "0", ":", "3", "0", ":", "0", "0",
                                  ".", "2", "5", "Z">>),
    JsonString(<<"2", "0", "2", "3", "-", "0", "2", "-", "2", "9", "T", "1", "0",
                 ":", "3", "0", ":", "0", "0", "Z">>),
    JsonString(<<"n", "o", "w">>),
    [kind |-> "number", chars |-> <<"1", "7">>],
    [kind |-> "null", chars |-> << >>] }

\* ------------------------------------------------------------------------
\* State
\* ------------------------------------------------------------------------

VARIABLES
  heap,     \* the Zeit objects: heap[1] is the caller's Zeit z, the objects
            \* after it are those its latest call returned
  periods,  \* the []*Period the caller holds: [StartsAt, EndsAt] addresses
  out,      \* the text, JSON document or integer the latest rendering call
            \* returned, with the Zeit value it was made from
  call,     \* the latest call: its name, receiver, arguments, result, and
            \* the receiver's value before it
  pc        \* where a running Scan / UnmarshalJSON stands between its two
            \* assignments; "idle" when no call is running

vars == <<heap, periods, out, call, pc>>

NoZeit == NewZeit(TimeUnix(0), "UTC")

NoOut ==
  [kind |-> "none", chars |-> << >>, n |-> 0, d |-> DurationOf(0, 0), of |-> NoZeit]

CallRec(op, recv, ret, err, pre) ==
  [op |-> op, recv |-> recv, ret |-> ret, err |-> err, pre |-> pre,
   n |-> 0, k |-> 0, loc |-> "", d |-> DurationOf(0, 0),
   src |-> SrcOther("none"), fromOut |-> FALSE]

Live == 1..Len(heap)

\* The caller holds z alone: it has derived nothing from it yet.
Fresh == Len(heap) = 1

Decodes == {"Scan", "UnmarshalJSON"}

\* The state after construction: z == New(t, loc).
Init ==
  /\ \E t \in Anchors, loc \in LocArgs :
       /\ heap = New(<< >>, t, loc).heap
       /\ call = [CallRec("New", 0, 1, FALSE, NoZeit) EXCEPT !.loc = loc]
  /\ periods = << >>
  /\ out = NoOut
  /\ pc = "idle"

\* A call that returns one new Zeit: r is the operation's [heap, ret].
Derive(r, rec) ==
  /\ pc = "idle"
  /\ Fresh
  /\ heap' = r.heap
  /\ call' = rec
  /\ periods' = << >>
  /\ out' = NoOut
  /\ UNCHANGED pc

CallAdd ==
  \E d \in Durations :
    LET r == Add(heap, 1, d)
    IN Derive(r, [CallRec("Add", 1, r.ret, FALSE, heap[1]) EXCEPT !.d = d])

CallAddDays ==
  \E days \in DayCounts :
    LET r == AddDays(heap, 1, days)
    IN Derive(r, [CallRec("AddDays", 1, r.ret, FALSE, heap[1]) EXCEPT !.n = days])

CallAddBusinessDays ==
  \E days \in BusinessCounts :
    LET r == AddBusinessDays(heap, 1, days)
    IN Derive(r, [CallRec("AddBusinessDays", 1, r.ret, FALSE, heap[1])
                    EXCEPT !.n = days])

CallIn ==
  \E loc \in LocArgs :
    LET r == In(heap, 1, loc)
    IN Derive(r, [CallRec("In", 1, r.ret, FALSE, heap[1]) EXCEPT !.loc = loc])

CallStartOfMonth ==
  \E r \in {StartOfMonth(heap, 1)} :
    Derive(r, CallRec("StartOfMonth", 1, r.ret, FALSE, heap[1]))

CallEndOfMonth ==
  \E r \in {EndOfMonth(heap, 1)} :
    Derive(r, CallRec("EndOfMonth", 1, r.ret, FALSE, heap[1]))

CallFromDatabase ==
  \E timestamp \in DbInputs, loc \in LocArgs :
    LET r == FromDatabase(heap, timestamp, loc)
    IN Derive(r, [CallRec("FromDatabase", 0, r.ret, FALSE, NoZeit)
                    EXCEPT !.n = timestamp, !.loc = loc])

\* FromDatabase on the integer the latest ToDatabase returned.
CallFromDatabaseStored ==
  /\ pc = "idle"
  /\ Fresh
  /\ out.kind = "int"
  /\ \E loc \in LocArgs :
       LET r == FromDatabase(heap, out.n, loc)
       IN /\ heap' = r.heap
          /\ call' = [CallRec("FromDatabase", 0, r.ret, FALSE, NoZeit)
                        EXCEPT !.n = out.n, !.loc = loc, !.fromOut = TRUE]
  /\ UNCHANGED <<periods, out, pc>>

CallCycles ==
  /\ pc = "idle"
  /\ Fresh
  /\ \E count \in Counts, interval \in Intervals :
       LET r == Cycles(heap, 1, count, interval)
       IN /\ heap' = r.heap
          /\ periods' = r.ret
          /\ call' = [CallRec("Cycles", 1, 0, FALSE, heap[1])
                        EXCEPT !.n = count, !.k = interval]
  /\ out' = NoOut
  /\ UNCHANGED pc

\* The caller builds a Period from two Zeits it holds, z and the Zeit it
\* derived from z: &Period{StartsAt: a, EndsAt: b}.
BuildPeriod ==
  /\ pc = "idle"
  /\ Len(heap) = 2
  /\ call.op \notin Decodes
  /\ \E a \in Live, b \in Live :
       /\ periods' = <<[StartsAt |-> a, EndsAt |-> b]>>
       /\ call' = [CallRec("Period", a, 0, FALSE, heap[a]) EXCEPT !.n = b]
  /\ out' = NoOut
  /\ UNCHANGED <<heap, pc>>

\* A call that renders a Zeit the caller holds; nothing else changes.
Render(a, kind, chars, n) ==
  /\ pc = "idle"
  /\ periods = << >>
  /\ out' = [NoOut EXCEPT !.kind = kind, !.chars = chars, !.n = n, !.of = heap[a]]
  /\ UNCHANGED <<heap, periods, pc>>

CallToUser ==
  \E a \in Live :
    /\ Render(a, "text", ToUser(heap[a]), 0)
    /\ call' = CallRec("ToUser", a, 0, FALSE, heap[a])

CallMarshalJSON ==
  /\ Fresh
  /\ Render(1, "json", MarshalJSON(heap[1]).chars, 0)
  /\ call' = CallRec("MarshalJSON", 1, 0, FALSE, heap[1])

CallToDatabase ==
  /\ Fresh
  /\ Render(1, "int", << >>, ToDatabase(heap[1]))
  /\ call' = [CallRec("ToDatabase", 1, 0, FALSE, heap[1])
                EXCEPT !.n = ToDatabase(heap[1])]

CallDaysInMonth ==
  /\ Fresh
  /\ Render(1, "days", << >>, DaysInMonth(heap[1]))
  /\ call' = CallRec("DaysInMonth", 1, 0, FALSE, heap[1])

\* Value(): the driver value, an int64, with a nil error.
CallValue ==
  /\ Fresh
  /\ Value(heap[1]).type = "int64"
  /\ Render(1, "value", << >>, Value(heap[1]).int)
  /\ call' = [CallRec("Value", 1, 0, FALSE, heap[1]) EXCEPT !.src = Value(heap[1])]

\* p.Duration() on a Period the caller holds.
CallPeriodDuration ==
  /\ pc = "idle"
  /\ call.op \in {"Cycles", "Period"}
  /\ \E i \in 1..Len(periods) :
       out' = [NoOut EXCEPT !.kind = "Period.Duration", !.n = i,
                            !.d = PeriodDuration(heap, periods[i])]
  /\ UNCHANGED <<heap, periods, call, pc>>

\* The callers of the model decode into z before they derive from it, or
\* into a Zeit of the periods Cycles returned; two successful decodes do not
\* follow one another.
MayDecode == pc = "idle" /\ (Fresh \/ call.op = "Cycles")

MayWrite == call.op \notin Decodes

\* Scan zeroing its target before the type switch: a rejected src leaves the
\* zero time in UTC behind.
ScanZeroingFirst(z, src) ==
  /\ MayDecode
  /\ IF ScanAccepts(src)
     THEN /\ MayWrite
          /\ heap' = [heap EXCEPT ![z].instant = ScanInstant(src)]
          /\ pc' = "scan_location"
          /\ call' = [CallRec("Scan", z, 0, FALSE, heap[z]) EXCEPT !.src = src]
     ELSE /\ heap' = [heap EXCEPT ![z] = NoZeit]
          /\ call' = [CallRec("Scan", z, 0, TRUE, heap[z]) EXCEPT !.src = src]
          /\ UNCHANGED pc
  /\ out' = NoOut
  /\ UNCHANGED periods

\* z.Scan(src) up to its first assignment, z.instant = ...; a src the type
\* switch rejects returns the error with nothing assigned.
Scan(z, src) ==
  /\ MayDecode
  /\ IF ScanAccepts(src)
     THEN /\ MayWrite
          /\ heap' = [heap EXCEPT ![z].instant = ScanInstant(src)]
          /\ pc' = "scan_location"
          /\ call' = [CallRec("Scan", z, 0, FALSE, heap[z]) EXCEPT !.src = src]
     ELSE /\ call' = [CallRec("Scan", z, 0, TRUE, heap[z]) EXCEPT !.src = src]
          /\ UNCHANGED <<heap, pc>>
  /\ out' = NoOut
  /\ UNCHANGED periods

CallScan == \E z \in Live, src \in ScanInputs : Scan(z, src)

\* Scan on the driver value the latest Value returned.
CallScanValue ==
  /\ out.kind = "value"
  /\ Scan(1, SrcInt64(out.n))

\* The second assignment of Scan: z.location = time.UTC; return nil.
ScanLocation ==
  /\ pc = "scan_location"
  /\ heap' = [heap EXCEPT ![call.recv].location = "UTC"]
  /\ pc' = "idle"
  /\ UNCHANGED <<periods, out, call>>

\* z.UnmarshalJSON(data) up to its first assignment, z.instant =
\* parsed.instant; a failed json.Unmarshal or FromUser returns the error with
\* nothing assigned.
UnmarshalJSON(z, data, fromOut) ==
  LET parsed == UnmarshalParsed(data)
  IN /\ MayDecode
     /\ IF ~parsed.err
        THEN /\ MayWrite
             /\ heap' = [heap EXCEPT ![z].instant = parsed.zeit.instant]
             /\ pc' = "unmarshal_location"
             /\ call' = [CallRec("UnmarshalJSON", z, 0, FALSE, heap[z])
                           EXCEPT !.fromOut = fromOut]
        ELSE /\ call' = [CallRec("UnmarshalJSON", z, 0, TRUE, heap[z])
                           EXCEPT !.fromOut = fromOut]
             /\ UNCHANGED <<heap, pc>>
     /\ out' = IF fromOut THEN out ELSE NoOut
     /\ UNCHANGED periods

CallUnmarshalJSON == \E data \in JsonInputs : UnmarshalJSON(1, data, FALSE)

\* UnmarshalJSON on the document the latest MarshalJSON returned.
CallUnmarshalMarshalled ==
  /\ out.kind = "json"
  /\ UnmarshalJSON(1, JsonString(out.chars), TRUE)

\* The second assignment of UnmarshalJSON: z.location = parsed.location,
\* which FromUser(isoString, time.UTC) set to UTC; return nil.
UnmarshalLocation ==
  /\ pc = "unmarshal_location"
  /\ heap' = [heap EXCEPT ![call.recv].location = "UTC"]
  /\ pc' = "idle"
  /\ UNCHANGED <<periods, out, call>>

Next ==
  \/ CallAdd
  \/ CallAddDays
  \/ CallAddBusinessDays
  \/ CallIn
  \/ CallStartOfMonth
  \/ CallEndOfMonth
  \/ CallDaysInMonth
  \/ CallValue
  \/ CallScanValue
  \/ CallPeriodDuration
  \/ CallFromDatabase
  \/ CallFromDatabaseStored
  \/ CallCycles
  \/ BuildPeriod
  \/ CallToUser
  \/ CallMarshalJSON
  \/ CallToDatabase
  \/ CallScan
  \/ ScanLocation
  \/ CallUnmarshalJSON
  \/ CallUnmarshalMarshalled
  \/ UnmarshalLocation

Spec == Init /\ [][Next]_vars

\* ------------------------------------------------------------------------
\* Spans: the caller holds two Zeits, a == heap[1] and b == heap[2], and
\* the Duration a.Until(b)
\* ------------------------------------------------------------------------

SpanInit ==
  /\ \E t \in SpanInstants, u \in SpanInstants, la \in SpanZones, lb \in SpanZones :
       heap = New(New(<< >>, t, la).heap, u, lb).heap
  /\ call = [CallRec("Until", 1, 0, FALSE, NoZeit) EXCEPT !.n = 2]
  /\ periods = << >>
  /\ out = NoOut
  /\ pc = "idle"

\* A call of one of the views of a.Until(b) that return an int.
View(kind, n) ==
  /\ pc = "idle"
  /\ Len(heap) = 2
  /\ out' = [NoOut EXCEPT !.kind = kind, !.n = n]
  /\ UNCHANGED <<heap, periods, call, pc>>

CallDays == View("Days", Days(heap, Until(1, 2)))

CallHours == View("Hours", Hours(heap, Until(1, 2)))

CallMinutes == View("Minutes", Minutes(heap, Until(1, 2)))

CallSeconds == View("Seconds", Seconds(heap, Until(1, 2)))

CallMonths == View("Months", Months(heap, Until(1, 2)))

CallBusinessDays == View("BusinessDays", BusinessDays(heap, Until(1, 2)))

CallRaw ==
  /\ pc = "idle"
  /\ Len(heap) = 2
  /\ out' = [NoOut EXCEPT !.kind = "Raw", !.d = Raw(heap, Until(1, 2))]
  /\ UNCHANGED <<heap, periods, call, pc>>

\* a.In(loc) or b.In(loc): the caller now holds a third Zeit.
CallInOperand ==
  /\ Len(heap) = 2
  /\ \E z \in {1, 2}, loc \in LocArgs :
       LET r == In(heap, z, loc)
       IN /\ heap' = r.heap
          /\ call' = [CallRec("In", z, r.ret, FALSE, heap[z]) EXCEPT !.loc = loc]
  /\ out' = NoOut
  /\ UNCHANGED <<periods, pc>>

SpanNext ==
  \/ CallDays
  \/ CallHours
  \/ CallMinutes
  \/ CallSeconds
  \/ CallMonths
  \/ CallBusinessDays
  \/ CallRaw
  \/ CallInOperand

SpanSpec == SpanInit /\ [][SpanNext]_vars

\* ------------------------------------------------------------------------
\* Shared Zeits: the caller of the first state machine also takes
\* d == z.Until(b), b the Zeit its latest call returned, whenever it holds
\* exactly the two, and reads d's projections. Until stores the two
\* pointers, so d is the pair of addresses (1, 2) in every later state.
\* ------------------------------------------------------------------------

SharedNext ==
  \/ Next
  \/ CallDays
  \/ CallMonths
  \/ CallBusinessDays
  \/ CallRaw

SharedSpec == Init /\ [][SharedNext]_vars

\* ------------------------------------------------------------------------
\* Properties
\* ------------------------------------------------------------------------

Idle == pc = "idle"

\* The Zeit a call returned.
Returned == heap[call.ret]


\* C1. Contiguity: in the sequence Cycles(n, interval) returns, n >= 1, every
\* period's EndsAt is Equal to the next period's StartsAt.
C1_Contiguity ==
  (call.op = "Cycles" /\ call.n >= 1) =>
    \A i \in 1..(Len(periods) - 1) :
      Equal(heap[periods[i].EndsAt], heap[periods[i + 1].StartsAt])

\* A Monthly run of the largest count from a month-end anchor: its periods
\* follow one another and none is empty.
C1_Witness ==
  /\ call.op = "Cycles" /\ call.k = Monthly /\ call.n = MaxCount
  /\ Len(periods) = call.n
  /\ CivilAt(call.pre.instant, 0).d = 31
  /\ \A i \in 1..(Len(periods) - 1) :
       /\ Equal(heap[periods[i].EndsAt], heap[periods[i + 1].StartsAt])
       /\ Before(heap[periods[i].StartsAt], heap[periods[i].EndsAt])

\* The calendar step the claim C2 describes: months added to the civil date of
\* t, the day clamped to the last day of the destination month, the clock kept.
ClampedStep(t, months) ==
  LET c  == CivilAt(t, 0)
      m0 == c.m - 1 + months
      y  == c.y + (m0 \div 12)
      m  == (m0 % 12) + 1
      d  == IF c.d > DaysIn(y, m) THEN DaysIn(y, m) ELSE c.d
  IN [sec  |-> DaysFromCivil(y, m, d) * SecondsPerDay + SecondOfDayAt(t, 0),
      nsec |-> t.nsec]

MonthsOf(interval) ==
  CASE interval = Monthly -> 1 [] interval = Quarterly -> 3 [] OTHER -> 12

\* C2. Calendar stepping in Cycles clamps the day of the month: for Monthly,
\* Quarterly and Yearly every period ends on the start's day of the month in
\* the destination month, or on that month's last day when the day does not
\* exist there.
C2_ClampedEnd ==
  (call.op = "Cycles" /\ call.k \in {Monthly, Quarterly, Yearly}) =>
    \A i \in 1..Len(periods) :
      heap[periods[i].EndsAt].instant
        = ClampedStep(heap[periods[i].StartsAt].instant, MonthsOf(call.k))

\* Weekday of a Zeit's calendar date as its display zone shows it.
DisplayWeekday(z) == WeekdayAt(z.instant, ZoneOffset(z.location, z.instant))

\* C3 as claimed. The Zeit AddBusinessDays(n) returns, n positive or
\* negative, read as a calendar date in its display zone, is no Saturday and
\* no Sunday.
C3_DisplayWeekday ==
  (call.op = "AddBusinessDays" /\ call.n # 0) =>
    DisplayWeekday(Returned) \notin {Saturday, Sunday}

\* C3 as amended. The Zeit AddBusinessDays(n) returns, n positive or negative,
\* read as a calendar date in UTC, is no Saturday and no Sunday.
C3_UtcWeekday ==
  (call.op = "AddBusinessDays" /\ call.n # 0) =>
    Weekday(Returned.instant) \notin {Saturday, Sunday}

\* A result that is a Friday in UTC and a Saturday in its display zone.
C3_Witness ==
  /\ call.op = "AddBusinessDays" /\ call.n < 0
  /\ Weekday(Returned.instant) = Saturday - 1
  /\ DisplayWeekday(Returned) = Saturday

\* Number of Monday-to-Friday days among the day counts lo..hi.
WeekdaysIn(lo, hi) ==
  Cardinality({d \in lo..hi : ((d + 4) % 7) \notin {Saturday, Sunday}})

\* C4. AddBusinessDays(n) stops on the |n|-th Monday-to-Friday UTC date after
\* (before, for n < 0) the receiver's, keeps the UTC time of day, and returns
\* a Zeit Equal to the receiver for n = 0.
C4_BusinessDaySteps ==
  (call.op = "AddBusinessDays") =>
    LET s == call.pre.instant
        r == Returned.instant
    IN /\ r.nsec = s.nsec
       /\ r.sec % SecondsPerDay = s.sec % SecondsPerDay
       /\ call.n = 0 => Equal(Returned, call.pre)
       /\ call.n > 0 =>
            /\ DayOf(r) > DayOf(s)
            /\ WeekdaysIn(DayOf(s) + 1, DayOf(r)) = call.n
            /\ WeekdaysIn(DayOf(r), DayOf(r)) = 1
       /\ call.n < 0 =>
            /\ DayOf(r) < DayOf(s)
            /\ WeekdaysIn(DayOf(r), DayOf(s) - 1) = 0 - call.n
            /\ WeekdaysIn(DayOf(r), DayOf(r)) = 1

\* The largest backward count from a Saturday, which crosses a weekend.
C4_Witness ==
  /\ call.op = "AddBusinessDays" /\ call.n = 0 - MaxBusiness
  /\ Weekday(call.pre.instant) = Saturday
  /\ DayOf(call.pre.instant) - DayOf(Returned.instant) > MaxBusiness

\* C5 as claimed. For every Period p, p.Contains(p.StartsAt) is true and
\* p.Contains(p.EndsAt) is false.
C5_HalfOpenEveryPeriod ==
  \A i \in 1..Len(periods) :
    /\ Contains(heap, periods[i], periods[i].StartsAt)
    /\ ~Contains(heap, periods[i], periods[i].EndsAt)

\* C5 as amended. For every Period p, p.Contains(p.EndsAt) is false, and
\* p.Contains(p.StartsAt) is true exactly when p.StartsAt is before p.EndsAt:
\* a period whose endpoints are Equal, or reversed, contains neither.
C5_HalfOpen ==
  \A i \in 1..Len(periods) :
    /\ ~Contains(heap, periods[i], periods[i].EndsAt)
    /\ Contains(heap, periods[i], periods[i].StartsAt)
         <=> Before(heap[periods[i].StartsAt], heap[periods[i].EndsAt])

\* A period a caller built from two different Zeits, the start the earlier.
C5_Witness ==
  /\ call.op = "Period" /\ Len(periods) = 1
  /\ periods[1].StartsAt # periods[1].EndsAt
  /\ Before(heap[periods[1].StartsAt], heap[periods[1].EndsAt])
  /\ Contains(heap, periods[1], periods[1].StartsAt)
  /\ ~Contains(heap, periods[1], periods[1].EndsAt)

\* C6 as claimed. No operation, Scan and UnmarshalJSON included, changes the
\* instant or the display zone of a Zeit that is already constructed.
C6_Immutable == [][\A a \in 1..Len(heap) : heap'[a] = heap[a]]_vars

\* C6 as amended. A step changes a constructed Zeit only as one of the two
\* assignments of a successful Scan or UnmarshalJSON on that Zeit: the first
\* writes the instant and leaves the zone, the second sets the zone to UTC.
\* Every other operation, and a failed Scan or UnmarshalJSON, changes none.
C6_OnlyDecodesWrite ==
  [][\A a \in 1..Len(heap) :
       heap'[a] # heap[a] =>
         /\ call'.op \in Decodes /\ ~call'.err /\ call'.recv = a
         /\ \/ /\ pc = "idle" /\ pc' # "idle"
               /\ heap'[a].location = heap[a].location
            \/ /\ pc # "idle" /\ pc' = "idle"
               /\ heap'[a] = [heap[a] EXCEPT !.location = "UTC"]]_vars

\* Between the two assignments of a Scan a reader of the Zeit finds the new
\* instant paired with the zone the Zeit had before.
C6_Witness ==
  /\ pc = "scan_location"
  /\ heap[call.recv].instant = ScanInstant(call.src)
  /\ heap[call.recv].instant # call.pre.instant
  /\ heap[call.recv].location = call.pre.location
  /\ call.pre.location # "UTC"

\* C7. Add, AddDays, AddBusinessDays and In leave their receiver's instant and
\* display zone as they were before the call and return another Zeit object.
C7_ReceiverKept ==
  (call.op \in {"Add", "AddDays", "AddBusinessDays", "In"}) =>
    /\ heap[call.recv] = call.pre
    /\ call.ret # call.recv
    /\ call.ret \in Live

\* In(nil) on a Zeit of another zone: the result shows UTC, the receiver
\* still its own zone.
C7_Witness ==
  /\ call.op = "In" /\ call.loc = "nil"
  /\ heap[call.recv] = call.pre
  /\ call.pre.location = "Europe/Berlin"
  /\ Returned.location = "UTC"
  /\ Equal(Returned, call.pre)

\* The stored integer of the scenario of C8, shown in Europe/Berlin.
Stored1705318200InBerlin ==
  [instant |-> TimeUnix(1705318200), location |-> "Europe/Berlin"]

C9_IntegerRoundTrip ==
  (call.op = "FromDatabase") =>
    /\ ToDatabase(Returned) = call.n
    /\ Returned.location = DefaultLoc(call.loc)
    /\ call.fromOut =>
         /\ Unix(Returned) = Unix(out.of)
         /\ Returned.instant.nsec = 0

\* A Zeit with a sub-second fraction stored and read back with a nil zone.
C9_Witness ==
  /\ call.op = "FromDatabase" /\ call.fromOut /\ call.loc = "nil"
  /\ out.of.instant.nsec # 0
  /\ Unix(Returned) = Unix(out.of)
  /\ ~Equal(Returned, out.of)

\* The Zeit that z.UnmarshalJSON(MarshalJSON(z0)) completed on, with z0.
Restored == Idle /\ call.op = "UnmarshalJSON" /\ call.fromOut

\* C10 as claimed. Unmarshalling the output of MarshalJSON(z) succeeds and
\* yields a Zeit Equal to z, with display zone UTC.
C10_RoundTripEqual ==
  Restored =>
    /\ ~call.err
    /\ Equal(heap[call.recv], out.of)
    /\ heap[call.recv].location = "UTC"

\* The seconds of a zone offset that the suffix +hh:mm does not carry.
OffsetSeconds(off) == off - 60 * TruncDiv(off, 60)

\* C10 as amended. Unmarshalling the output of MarshalJSON(z) succeeds and
\* yields a Zeit with display zone UTC and no sub-second fraction, at z's
\* Unix second moved by the seconds of the display zone's offset that +hh:mm
\* leaves out; it is Equal to z exactly when z has no sub-second fraction and
\* that offset is a whole number of minutes.
C10_RoundTripToSecond ==
  Restored =>
    LET off == ZoneOffset(out.of.location, out.of.instant)
    IN /\ ~call.err
       /\ heap[call.recv].location = "UTC"
       /\ heap[call.recv].instant
            = [sec |-> out.of.instant.sec + OffsetSeconds(off), nsec |-> 0]
       /\ Equal(heap[call.recv], out.of)
            <=> (out.of.instant.nsec = 0 /\ OffsetSeconds(off) = 0)

\* A Zeit shown in Africa/Monrovia on local mean time, marshalled with the
\* suffix -00:44 and read back Equal to nothing it was: 30 seconds earlier.
C10_Witness ==
  /\ Restored /\ ~call.err
  /\ out.of.location = "Africa/Monrovia"
  /\ ZoneOffset(out.of.location, out.of.instant) = 0 - 2670
  /\ heap[call.recv].instant.sec = out.of.instant.sec - 30
  /\ heap[call.recv].location = "UTC"

\* The earlier and the later of the two instants a and b of the span.
SpanFirst ==
  IF TimeBefore(heap[2].instant, heap[1].instant) THEN heap[2].instant
  ELSE heap[1].instant

SpanLast ==
  IF TimeBefore(heap[2].instant, heap[1].instant) THEN heap[1].instant
  ELSE heap[2].instant

\* The two Zeits of the span shown in other zones.
Rezoned(la, lb) ==
  <<[heap[1] EXCEPT !.location = la], [heap[2] EXCEPT !.location = lb]>>

WholeMonths ==
  LET start == CivilAt(SpanFirst, 0)
      end   == CivilAt(SpanLast, 0)
      n     == (end.y * 12 + end.m) - (start.y * 12 + start.m)
                 - (IF end.d < start.d THEN 1 ELSE 0)
  IN IF n > 0 THEN n ELSE 0

\* C12. Months of a.Until(b) is max(0, 12*(end.year-start.year) +
\* (end.month-start.month) - (1 if end.day < start.day)) with start the
\* earlier and end the later instant; it is never negative and the same for
\* b.Until(a); 2024-01-15 to 2024-02-14 gives 0, to 2024-02-15 gives 1.
C12_WholeMonths ==
  (out.kind = "Months") =>
    /\ out.n = WholeMonths
    /\ out.n >= 0
    /\ Months(heap, Until(2, 1)) = out.n
    /\ (DayOf(SpanFirst) = DaysFromCivil(2024, 1, 15)) =>
         /\ (DayOf(SpanLast) = DaysFromCivil(2024, 2, 14)) => out.n = 0
         /\ (DayOf(SpanLast) = DaysFromCivil(2024, 2, 15)) => out.n = 1

\* 2024-02-14 until 2024-01-15, the later instant first: no whole month.
C12_Witness ==
  /\ out.kind = "Months" /\ out.n = 0
  /\ DayOf(heap[1].instant) = DaysFromCivil(2024, 2, 14)
  /\ DayOf(heap[2].instant) = DaysFromCivil(2024, 1, 15)

\* C13. Cycles returns an empty sequence for every count <= 0, and for a
\* count >= 1 exactly count Periods, the first of which starts at the anchor:
\* its StartsAt is Equal to the receiver. This holds for every interval value.
C13_CyclesCount ==
  (call.op = "Cycles") =>
    /\ (call.n <= 0) => periods = << >>
    /\ (call.n >= 1) =>
         /\ Len(periods) = call.n
         /\ Equal(heap[periods[1].StartsAt], heap[call.recv])
         /\ Equal(heap[periods[1].StartsAt], call.pre)

\* The largest count with an interval value that is none of the five named.
C13_Witness ==
  /\ call.op = "Cycles" /\ call.n = MaxCount /\ call.k = Yearly + 1
  /\ Len(periods) = MaxCount
  /\ periods[1].StartsAt = call.recv

\* C14. Scan returns no error exactly for int64 and float64 inputs, and then
\* leaves the Zeit at the Unix second the value gives (a float64 converted to
\* int64), without a fraction and with display zone UTC, whatever it held
\* before; nil and every other type give an error. Value returns the Unix
\* second as an int64 with a nil error, so Scan(Value(z)) yields z's Unix
\* second in UTC.
C14_ScanContract ==
  /\ (call.op = "Value") =>
       /\ ~call.err
       /\ out.n = Unix(call.pre)
       /\ call.src = SrcInt64(Unix(call.pre))
  /\ (call.op = "Scan" /\ Idle) =>
       /\ call.err <=> (call.src.type \notin {"int64", "float64"})
       /\ ~call.err =>
            heap[call.recv] = NewZeit(TimeUnix(call.src.int), "UTC")
       /\ (call.src = Value(call.pre)) =>
            /\ ~call.err
            /\ Unix(heap[call.recv]) = Unix(call.pre)
            /\ heap[call.recv].location = "UTC"

\* Scan(Value(z)) on a z shown in Berlin with half a second of fraction.
C14_Witness ==
  /\ call.op = "Scan" /\ Idle /\ ~call.err
  /\ call.src = Value(call.pre)
  /\ call.pre.location = "Europe/Berlin" /\ call.pre.instant.nsec > 0
  /\ heap[call.recv] = NewZeit(TimeUnix(Unix(call.pre)), "UTC")

\* C15. Comparison ignores the display zone: two Zeits made by New from the
\* same time value in any two zones are Equal, and the results of Before,
\* After and Equal between a and b, either way round, are the same when a or
\* b is replaced by what In(Z) returns for it, for any zone Z.
C15_ZoneBlindComparison ==
  /\ (heap[1].instant = heap[2].instant) => Equal(heap[1], heap[2])
  /\ (call.op = "In") =>
       LET was == heap[call.recv]
           now == heap[call.ret]
           oth == heap[3 - call.recv]
       IN /\ Before(now, oth) = Before(was, oth)
          /\ Before(oth, now) = Before(oth, was)
          /\ After(now, oth) = After(was, oth)
          /\ After(oth, now) = After(oth, was)
          /\ Equal(now, oth) = Equal(was, oth)
          /\ Equal(oth, now) = Equal(oth, was)
          /\ Equal(now, was)

\* b.In(Europe/Berlin) for a b that is shown in another zone and is later
\* than a: a is before both.
C15_Witness ==
  /\ call.op = "In" /\ call.recv = 2
  /\ heap[call.ret].location = "Europe/Berlin"
  /\ heap[call.recv].location = "America/Asuncion"
  /\ Before(heap[1], heap[call.ret])
  /\ ~After(heap[1], heap[call.ret])

\* The exact elapsed time between the two instants, as [s, ns].
Elapsed == TimeSub(SpanLast, SpanFirst)

\* C18 as claimed. Raw of a.Until(b) is the non-negative elapsed time, the
\* same for b.Until(a); Seconds, Minutes and Hours are the floor of Raw in
\* that unit and Days is floor(hours / 24); none depends on a display zone.
C18_FloorProjections ==
  /\ (out.kind = "Raw") =>
       /\ out.d = Elapsed /\ out.d.s >= 0
       /\ Raw(heap, Until(2, 1)) = out.d
  /\ (out.kind = "Seconds") => out.n = Elapsed.s
  /\ (out.kind = "Minutes") => out.n = Elapsed.s \div 60
  /\ (out.kind = "Hours") => out.n = Elapsed.s \div 3600
  /\ (out.kind = "Days") => out.n = (Elapsed.s \div 3600) \div 24

\* The second of the day a Zeit shows in its zone.
ShownSecondOfDay(zeit) ==
  SecondOfDayAt(zeit.instant, ZoneOffset(zeit.location, zeit.instant))

\* C16 as claimed. For every Zeit z with zone Z, StartOfMonth() shows 00:00:00
\* on day 1, and EndOfMonth() shows 23:59:59 without a fraction on the last
\* day (28 to 31, by month and leap year), of the calendar month that z shows
\* in Z; both results carry zone Z, and DaysInMonth is that last day.
C16_MonthBoundaries ==
  /\ (call.op = "DaysInMonth") =>
       out.n = DaysIn(Shown(call.pre).y, Shown(call.pre).m)
  /\ (call.op = "StartOfMonth") =>
       /\ Returned.location = call.pre.location
       /\ Shown(Returned) = [Shown(call.pre) EXCEPT !.d = 1]
       /\ ShownSecondOfDay(Returned) = 0
       /\ Returned.instant.nsec = 0
  /\ (call.op = "EndOfMonth") =>
       /\ Returned.location = call.pre.location
       /\ Shown(Returned) =
            [Shown(call.pre) EXCEPT !.d = DaysIn(Shown(call.pre).y, Shown(call.pre).m)]
       /\ ShownSecondOfDay(Returned) = SecondsPerDay - 1
       /\ Returned.instant.nsec = 0

\* The Period Duration was called on, and Raw of its StartsAt.Until(EndsAt).
Measured == periods[out.n]

MeasuredRaw == Raw(heap, Until(Measured.StartsAt, Measured.EndsAt))

\* C17 as claimed. For every Period p, from Cycles or built by a caller from
\* any two Zeits, p.Duration() equals p.StartsAt.Until(p.EndsAt).Raw().
C17_DurationIsRaw ==
  (out.kind = "Period.Duration") => out.d = MeasuredRaw

\* C17 as amended. p.Duration() equals p.StartsAt.Until(p.EndsAt).Raw() for
\* every Period whose StartsAt is not after its EndsAt, which includes every
\* Period Cycles returns; for a Period whose StartsAt is after its EndsAt it
\* is the negative of Raw().
C17_DurationIsSignedRaw ==
  (out.kind = "Period.Duration") =>
    /\ ~After(heap[Measured.StartsAt], heap[Measured.EndsAt]) =>
         out.d = MeasuredRaw
    /\ After(heap[Measured.StartsAt], heap[Measured.EndsAt]) =>
         /\ out.d = DurationNeg(MeasuredRaw)
         /\ out.d.s < 0
    /\ (call.op = "Cycles") => out.d = MeasuredRaw

\* Duration of a Period a caller built with the later Zeit as its start.
C17_Witness ==
  /\ out.kind = "Period.Duration" /\ call.op = "Period"
  /\ After(heap[Measured.StartsAt], heap[Measured.EndsAt])
  /\ out.d = DurationNeg(MeasuredRaw)
  /\ MeasuredRaw.s > 0

\* C19. Add, AddDays and AddBusinessDays return a Zeit with the receiver's
\* display zone, and every StartsAt and EndsAt of every Period Cycles returns,
\* for any count and interval, carries the anchor's display zone.
C19_ZoneKept ==
  /\ (call.op \in {"Add", "AddDays", "AddBusinessDays"}) =>
       Returned.location = call.pre.location
  /\ (call.op = "Cycles") =>
       \A i \in 1..Len(periods) :
         /\ heap[periods[i].StartsAt].location = call.pre.location
         /\ heap[periods[i].EndsAt].location = call.pre.location

\* The largest Quarterly run from an anchor shown in America/Asuncion.
C19_Witness ==
  /\ call.op = "Cycles" /\ call.n = MaxCount /\ call.k = Quarterly
  /\ call.pre.location = "America/Asuncion"
  /\ heap[periods[MaxCount].EndsAt].location = "America/Asuncion"

\* Instants to probe the periods with: every Zeit the caller holds after
\* Cycles, and the instants one nanosecond and twelve hours to either side.
Probes ==
  { TimeAdd(heap[a].instant, d) :
      a \in Live,
      d \in { DurationOf(0, 0), DurationOf(0, 1), DurationOf(0 - 1, NanosPerSecond - 1),
              DurationOf(12 * 3600, 0), DurationOf(0 - 12 * 3600, 0) } }

\* The periods that contain a Zeit at instant t.
Containing(t) ==
  { i \in 1..Len(periods) :
      Contains(Append(heap, NewZeit(t, "UTC")), periods[i], Len(heap) + 1) }

\* C20. The periods Cycles(n, interval) returns, n >= 1, tile the range from
\* the anchor to the last period's end: every period starts strictly before
\* it ends, every Zeit t with anchor <= t < periods[n-1].EndsAt is contained
\* in exactly one period, and every Zeit outside that range in none.
C20_Tiling ==
  (call.op = "Cycles" /\ call.n >= 1) =>
    /\ \A i \in 1..Len(periods) :
         Before(heap[periods[i].StartsAt], heap[periods[i].EndsAt])
    /\ \A t \in Probes :
         IF /\ ~TimeBefore(t, call.pre.instant)
            /\ TimeBefore(t, heap[periods[Len(periods)].EndsAt].instant)
         THEN Cardinality(Containing(t)) = 1
         ELSE Containing(t) = {}

\* A Monthly run of the largest count from 2024-01-31: the end of the first
\* period is in the second period alone, the instant before it in the first,
\* and the end of the last period in none.
C20_Witness ==
  /\ call.op = "Cycles" /\ call.n = MaxCount /\ call.k = Monthly
  /\ DayOf(call.pre.instant) = DaysFromCivil(2024, 1, 31)
  /\ Containing(heap[periods[1].EndsAt].instant) = {2}
  /\ Containing(TimeAdd(heap[periods[1].EndsAt].instant,
                         DurationOf(0 - 1, NanosPerSecond - 1))) = {1}
  /\ Containing(heap[periods[MaxCount].EndsAt].instant) = {}

\* A successful Scan or UnmarshalJSON has returned.
Decoded == call.op \in Decodes /\ ~call.err /\ pc = "idle"

\* The heap as it was before the latest Scan / UnmarshalJSON.
PreHeap == [heap EXCEPT ![call.recv] = call.pre]

\* The projection of d == z.Until(b) the latest view returned is the one heap
\* h gives.
ViewIs(h) ==
  /\ out.kind = "Days" => out.n = Days(h, Until(1, 2))
  /\ out.kind = "Months" => out.n = Months(h, Until(1, 2))
  /\ out.kind = "BusinessDays" => out.n = BusinessDays(h, Until(1, 2))
  /\ out.kind = "Raw" => out.d = Raw(h, Until(1, 2))

\* C21 as claimed. Derived values are snapshots: after d := a.Until(b) or
\* ps := a.Cycles(n, interval), a successful Scan or UnmarshalJSON on a
\* leaves every projection of d (Raw, Days, Months, BusinessDays) and every
\* StartsAt and EndsAt of ps as they were, and a successful Scan on
\* ps[i].EndsAt leaves ps[i+1].StartsAt as it was.
C21_Snapshots ==
  Decoded =>
    /\ call.recv = 1 =>
         /\ Len(heap) = 2 => ViewIs(PreHeap)
         /\ \A i \in 1..Len(periods) :
              /\ heap[periods[i].StartsAt] = PreHeap[periods[i].StartsAt]
              /\ heap[periods[i].EndsAt] = PreHeap[periods[i].EndsAt]
    /\ \A i \in 1..(Len(periods) - 1) :
         call.recv = periods[i].EndsAt =>
           heap[periods[i + 1].StartsAt] = PreHeap[periods[i + 1].StartsAt]

\* C21 as amended. Derived values share their Zeits: ps[0].StartsAt is the
\* receiver a itself, and ps[i].EndsAt and ps[i+1].StartsAt are one Zeit.
\* After a successful Scan or UnmarshalJSON on a, every projection of
\* d == a.Until(b) is computed from the decoded a (for Scan, the instant of
\* the driver value, in UTC), ps[0].StartsAt reads the decoded a, and every
\* other endpoint of ps is as Cycles made it; after a successful decode into
\* ps[i].EndsAt, ps[i+1].StartsAt reads the decoded value as well.
C21_SharedZeits ==
  /\ (call.op = "Cycles" \/ Decoded) =>
       /\ Len(periods) >= 1 => periods[1].StartsAt = 1
       /\ \A i \in 1..(Len(periods) - 1) :
            periods[i + 1].StartsAt = periods[i].EndsAt
  /\ Decoded =>
       /\ heap[call.recv].location = "UTC"
       /\ call.op = "Scan" => heap[call.recv].instant = ScanInstant(call.src)
       /\ (call.recv = 1 /\ Len(heap) = 2) => ViewIs(heap)
       /\ (call.recv = 1 /\ Len(periods) >= 1) =>
            \E k \in Intervals :
              \A a \in 2..Len(heap) :
                heap[a] = Cycles(<<call.pre>>, 1, Len(periods), k).heap[a]

\* A Scan into a after ps := a.Cycles(1, interval) and d := a.Until(ps[0].EndsAt)
\* moved ps[0].StartsAt, and d.Days() returns another number than d had.
C21_Witness ==
  /\ Decoded /\ call.op = "Scan" /\ call.recv = 1
  /\ Len(periods) = 1 /\ periods[1].StartsAt = 1
  /\ heap[1] # call.pre
  /\ out.kind = "Days"
  /\ out.n = Days(heap, Until(1, 2))
  /\ out.n # Days(PreHeap, Until(1, 2))

\* C22. A Scan or UnmarshalJSON that returned an error left its target as it
\* was: the same instant and the same display zone as before the call.
C22_FailedDecodeKeepsTarget ==
  (call.op \in Decodes /\ call.err) =>
    /\ pc = "idle"
    /\ heap[call.recv] = call.pre

\* A Scan of nil into a Zeit shown in Europe/Berlin failed, and the Zeit still
\* is in Europe/Berlin at an instant that is not the zero time.
C22_Witness ==
  /\ call.op = "Scan" /\ call.err /\ call.src.type = "nil"
  /\ heap[call.recv].location = "Europe/Berlin"
  /\ heap[call.recv].instant # NoZeit.instant
  /\ heap[call.recv] = call.pre

\* n * 24h as a time.Duration.
DaysOf(n) == DurationOf(n * SecondsPerDay, 0)

\* C23. AddDays is fixed-length on the stored UTC instant: in every display
\* zone z.AddDays(n) is Equal to z.Add(n * 24h), z.AddDays(n).AddDays(-n) is
\* Equal to z, and every Daily / Weekly period of Cycles lasts exactly
\* 24h / 168h.
C23_AddDaysFixedLength ==
  /\ call.op = "AddDays" =>
       /\ \E a \in {Add(heap, 1, DaysOf(call.n))} :
            Equal(Returned, a.heap[a.ret])
       /\ \E b \in {AddDays(heap, call.ret, 0 - call.n)} :
            Equal(b.heap[b.ret], heap[1])
  /\ (call.op = "Cycles" /\ call.k \in {Daily, Weekly}) =>
       \A i \in 1..Len(periods) :
         PeriodDuration(heap, periods[i])
           = DaysOf(IF call.k = Daily THEN 1 ELSE 7)

\* AddDays(30) across the end of summer time in Europe/Berlin: the result
\* is 720 hours later and its wall clock reads an hour less.
C23_Witness ==
  /\ call.op = "AddDays" /\ call.n = 30
  /\ call.pre.location = "Europe/Berlin"
  /\ ZoneOffset("Europe/Berlin", Returned.instant)
       # ZoneOffset("Europe/Berlin", call.pre.instant)
  /\ TimeSub(Returned.instant, call.pre.instant) = DaysOf(30)
  /\ ShownSecondOfDay(Returned) = ShownSecondOfDay(call.pre) - 3600

\* C24. AddBusinessDays and BusinessDays agree: for z on a Monday-to-Friday
\* UTC date, z.Until(z.AddBusinessDays(n)).BusinessDays() is |n|, and
\* z.AddBusinessDays(n).AddBusinessDays(-n) is Equal to z.
C24_BusinessDaysAgree ==
  (call.op = "AddBusinessDays" /\ ~IsWeekend(Weekday(call.pre.instant))) =>
    /\ out.kind = "BusinessDays" =>
         out.n = (IF call.n < 0 THEN 0 - call.n ELSE call.n)
    /\ \E b \in {AddBusinessDays(heap, call.ret, 0 - call.n)} :
         Equal(b.heap[b.ret], heap[1])

\* The largest count backward from a Monday: the result lies more than that
\* many days back, and BusinessDays of the span from z to it was read.
C24_Witness ==
  /\ call.op = "AddBusinessDays" /\ call.n = 0 - MaxBusiness
  /\ Weekday(call.pre.instant) = Sunday + 1
  /\ heap[1] = call.pre
  /\ DayOf(heap[1].instant) - DayOf(Returned.instant) > MaxBusiness
  /\ out.kind = "BusinessDays" /\ out.n = MaxBusiness

\* Months of s.Until(e) for the Zeit s == a and a Zeit e at instant u.
MonthsUntil(u) == Months(<<heap[1], NewZeit(u, "UTC")>>, Until(1, 2))

\* C25. Months is monotone in the span: with s == a no later than e1 == b,
\* s.Until(e1).Months() is at most s.Until(e2).Months() for every Zeit e2 no
\* earlier than e1.
C25_MonthsMonotone ==
  (out.kind = "Months" /\ ~After(heap[1], heap[2])) =>
    \A u \in SpanInstants :
      ~TimeBefore(u, heap[2].instant) => out.n <= MonthsUntil(u)

\* From 2024-01-31 the span to 2024-02-29 holds no whole month and the span
\* to 2024-03-01 holds one.
C25_Witness ==
  /\ out.kind = "Months" /\ out.n = 0
  /\ heap[1].instant = At(2024, 1, 31, 10, 0, 0)
  /\ heap[2].instant = At(2024, 2, 29, 10, 0, 0)
  /\ MonthsUntil(At(2024, 3, 1, 10, 0, 0)) = 1
====
